---------------------------- MODULE Spec2Model ----------------------------
(***************************************************************************)
(* A model of the plan / conflict / negotiation / execution pipeline of    *)
(* the student-calendar assistant.                                         *)
(*                                                                         *)
(* Time.  A calendar date is its proleptic Gregorian ordinal (Python's     *)
(* date.toordinal(): 739257 is Monday 2025-01-06).  An instant is a number *)
(* of minutes, ordinal * 1440 + hour * 60 + minute.  A wall-clock "HH:MM"  *)
(* string is the number of minutes since midnight it denotes, and parsing  *)
(* it yields the pair <<hour, minute>>.                                    *)
(***************************************************************************)
EXTENDS Integers, Sequences, FiniteSets, TLC

VARIABLES
    a, b, overlap_out,
    semester_start, target_dow, first_occurrence_out,
    plan, semester, calendar, conflict_out,
    mutation_plan_json, resolutions_json, negotiation_out,
    event_json, today, days_search_range, step_minutes, busy, slots_out,
    exec_plan, tool_calls, execution_out,
    events, planner_semester, planner_out,
    mutation_plan, dumped_json, reparsed_plan,
    extracted_events, semester_window, generated_plan, conflict_report,
    negotiation_outcome, execution_report, managed_calendar, click,
    starting_agent, max_turns, current_turn, tool_round_trips, last_tool, run_result,
    called_tool, tool_args, calendar_id_env, calendar_items, api_calls, tool_out

vars ==
    <<a, b, overlap_out, semester_start, target_dow, first_occurrence_out,
      plan, semester, calendar, conflict_out,
      mutation_plan_json, resolutions_json, negotiation_out,
      event_json, today, days_search_range, step_minutes, busy, slots_out,
      exec_plan, tool_calls, execution_out,
      events, planner_semester, planner_out,
      mutation_plan, dumped_json, reparsed_plan,
      extracted_events, semester_window, generated_plan, conflict_report,
      negotiation_outcome, execution_report, managed_calendar, click,
      starting_agent, max_turns, current_turn, tool_round_trips, last_tool, run_result,
      called_tool, tool_args, calendar_id_env, calendar_items, api_calls, tool_out>>

overlapVars == <<a, b, overlap_out>>
firstOccurrenceVars == <<semester_start, target_dow, first_occurrence_out>>
conflictVars == <<plan, semester, calendar, conflict_out>>
applyVars == <<mutation_plan_json, resolutions_json, negotiation_out>>
slotVars == <<event_json, today, days_search_range, step_minutes, busy, slots_out>>
executorVars == <<exec_plan, tool_calls, execution_out>>
plannerVars == <<events, planner_semester, planner_out>>
roundTripVars == <<mutation_plan, dumped_json, reparsed_plan>>
sessionVars ==
    <<extracted_events, semester_window, generated_plan, conflict_report,
      negotiation_outcome, execution_report, managed_calendar, click>>
runnerVars ==
    <<starting_agent, max_turns, current_turn, tool_round_trips, last_tool, run_result>>
toolVars ==
    <<called_tool, tool_args, calendar_id_env, calendar_items, api_calls, tool_out>>
\* the state of one run of the agent runner and of one call of a calendar tool
serviceVars == <<runnerVars, toolVars>>
\* the state of the planner, of the plan's JSON text, of the session, of the
\* runner and of the calendar tools
pipelineVars == <<plannerVars, roundTripVars, sessionVars, serviceVars>>

(***************************************************************************)
(* Bounds of the model.                                                    *)
(***************************************************************************)
\* instants of the interval grid of SpecOverlap are 0 .. MaxInstant
MaxInstant == 4
\* a plan given to the conflict detector has at most MaxOps operations
MaxOps == 3
\* SpecFirstOccurrence draws semester_start from 739257 .. 739257 + MaxStartOffset
MaxStartOffset == 13
\* a plan given to apply_resolutions_tool has at most MaxPlanOps operations
MaxPlanOps == 2
\* and at most MaxResolutions resolutions
MaxResolutions == 2
\* find_alternative_slots_tool is called with days_search_range in 0 .. MaxSearchRange
MaxSearchRange == 2
\* a plan given to the executor has at most MaxExecOps operations, and the
\* report it returns at most MaxExecOps results and counts up to MaxExecOps
MaxExecOps == 3

\* events().list(maxResults=50)
MaxResults == 50

MinutesPerDay == 24 * 60

None == [status |-> "none"]

Min(x, y) == IF x < y THEN x ELSE y
Max(x, y) == IF x > y THEN x ELSE y

RECURSIVE Concat(_)
Concat(seqs) == IF seqs = <<>> THEN <<>> ELSE Head(seqs) \o Concat(Tail(seqs))

MapSeq(s, F(_)) == [i \in 1..Len(s) |-> F(s[i])]

Take(s, n) == SubSeq(s, 1, Min(Len(s), n))

Range(s) == {s[i] : i \in 1..Len(s)}

SeqsUpTo(S, n) == UNION {[1..k -> S] : k \in 0..n}

(***************************************************************************)
(* models.py                                                               *)
(***************************************************************************)
DayOfWeek == {"mon", "tue", "wed", "thu", "fri", "sat", "sun"}

ScheduleEvent(title, day_of_week, start_time, end_time) ==
    [title |-> title, day_of_week |-> day_of_week,
     start_time |-> start_time, end_time |-> end_time, recurrence |-> "weekly"]

CreateRecurringOp(event, first_start_iso, first_end_iso, rrule) ==
    [op |-> "create_recurring", event |-> event,
     first_start_iso |-> first_start_iso, first_end_iso |-> first_end_iso,
     rrule |-> rrule]

UpdateEventOp(google_event_id, patch) ==
    [op |-> "update", google_event_id |-> google_event_id, patch |-> patch]

DeleteEventOp(google_event_id) ==
    [op |-> "delete", google_event_id |-> google_event_id]

MutationPlan(operations, preview) ==
    [operations |-> operations, preview |-> preview, requires_confirmation |-> TRUE]

SemesterWindow(start, end) ==
    [semester_start |-> start, semester_end |-> end, timezone |-> "Europe/Brussels"]

Conflict(type, summary, affected, suggestions) ==
    [type |-> type, summary |-> summary, affected |-> affected,
     suggestions |-> suggestions]

ConflictReport(conflicts, blocking) ==
    [conflicts |-> conflicts, blocking |-> blocking]

(***************************************************************************)
(* datetime                                                                *)
(***************************************************************************)
\* An ISO-8601 string: one that datetime.fromisoformat parses, to an instant,
\* or one it rejects.
Iso(instant) == [valid |-> TRUE, instant |-> instant]
BadIso == [valid |-> FALSE]

\* datetime.strftime("%H:%M"): the wall-clock time of day, the date dropped
StrftimeHHMM(instant) == instant % MinutesPerDay

\* date.weekday(): Monday is 0
Weekday(day) == (day + 6) % 7

\* datetime.replace(hour=h, minute=m) on midnight of `day`
ReplaceTime(day, h, m) == day * MinutesPerDay + h * 60 + m

(***************************************************************************)
(* app_agents/conflict_agent.py                                            *)
(***************************************************************************)
ParseTimeHHMM(value) == <<value \div 60, value % 60>>

DowMap ==
    [d \in DayOfWeek |->
        CASE d = "mon" -> 0 [] d = "tue" -> 1 [] d = "wed" -> 2 [] d = "thu" -> 3
          [] d = "fri" -> 4 [] d = "sat" -> 5 [] d = "sun" -> 6]

FirstOccurrenceDateSkipsToday(start, dow) ==
    LET delta_days == (DowMap[dow] - Weekday(start)) % 7
    IN  start + (IF delta_days = 0 THEN 7 ELSE delta_days)

FirstOccurrenceDate(start, dow) ==
    LET target == IF dow \in DOMAIN DowMap THEN DowMap[dow] ELSE 0
        start_dow == Weekday(start)
        delta_days == (target - start_dow) % 7
    IN  start + delta_days

EventsOverlapClosed(a_start, a_end, b_start, b_end) ==
    Max(a_start, b_start) <= Min(a_end, b_end)

EventsOverlap(a_start, a_end, b_start, b_end) ==
    Max(a_start, b_start) < Min(a_end, b_end)

\* _planned_occurrences tagging each interval with its position among the
\* intervals built so far instead of the operation's position in the plan
PlannedOccurrencesCountingCreated(p, sem) ==
    LET ops == p.operations
        semester_start_date == sem.semester_start
        created == SelectSeq([i \in 1..Len(ops) |-> i],
                             LAMBDA i : ops[i].op = "create_recurring")
        Occurrence(i) ==
            LET ev == ops[i].event
                start_day == FirstOccurrenceDate(semester_start_date, ev.day_of_week)
                s == ParseTimeHHMM(ev.start_time)
                e == ParseTimeHHMM(ev.end_time)
            IN  [index |-> Cardinality({k \in 1..(i - 1) : ops[k].op = "create_recurring"}),
                 title |-> ev.title,
                 start |-> ReplaceTime(start_day, s[1], s[2]),
                 end |-> ReplaceTime(start_day, e[1], e[2]),
                 event |-> ev]
    IN  MapSeq(created, Occurrence)

\* one dict per create_recurring operation: its position in the plan, and the
\* interval of its first occurrence, read from the event's day and times
PlannedOccurrences(p, sem) ==
    LET ops == p.operations
        semester_start_date == sem.semester_start
        created == SelectSeq([i \in 1..Len(ops) |-> i],
                             LAMBDA i : ops[i].op = "create_recurring")
        Occurrence(i) ==
            LET ev == ops[i].event
                start_day == FirstOccurrenceDate(semester_start_date, ev.day_of_week)
                s == ParseTimeHHMM(ev.start_time)
                e == ParseTimeHHMM(ev.end_time)
            IN  [index |-> i - 1, title |-> ev.title,
                 start |-> ReplaceTime(start_day, s[1], s[2]),
                 end |-> ReplaceTime(start_day, e[1], e[2]),
                 event |-> ev]
    IN  MapSeq(created, Occurrence)

\* service.events().list(timeMin, timeMax, singleEvents, orderBy="startTime",
\* maxResults): the events that end after timeMin and start before timeMax, by
\* start time, the first maxResults of them.  `cal` is kept ordered by start.
ListEvents(cal, time_min, time_max, max_results) ==
    Take(SelectSeq(cal, LAMBDA ev : ev.end > time_min /\ ev.start < time_max),
         max_results)

ExistingEventsBetween(cal, start_iso, end_iso) ==
    MapSeq(ListEvents(cal, start_iso, end_iso, MaxResults),
           LAMBDA ev : [summary |-> IF "summary" \in DOMAIN ev THEN ev.summary
                                    ELSE "(busy)",
                        start |-> ev.start, end |-> ev.end])

\* 1) planned vs planned: pairs i < j, in loop order
PlannedConflictsAdjacentOnly(planned) ==
    Concat([i \in 1..Len(planned) |->
        MapSeq(SelectSeq([k \in 1..(Len(planned) - i) |-> i + k],
                         LAMBDA j : j = i + 1 /\
                                    EventsOverlap(planned[i].start, planned[i].end,
                                                  planned[j].start, planned[j].end)),
               LAMBDA j : Conflict("overlap",
                                   "Planned '" \o planned[i].title
                                     \o "' overlaps with '" \o planned[j].title \o "'",
                                   <<planned[i].title, planned[j].title>>,
                                   <<"Shift one of the events to avoid overlap.">>))])

PlannedConflicts(planned) ==
    Concat([i \in 1..Len(planned) |->
        MapSeq(SelectSeq([k \in 1..(Len(planned) - i) |-> i + k],
                         LAMBDA j : EventsOverlap(planned[i].start, planned[i].end,
                                                  planned[j].start, planned[j].end)),
               LAMBDA j : Conflict("overlap",
                                   "Planned '" \o planned[i].title
                                     \o "' overlaps with '" \o planned[j].title \o "'",
                                   <<planned[i].title, planned[j].title>>,
                                   <<"Shift one of the events to avoid overlap.">>))])

\* 2) planned vs existing events, one query per planned occurrence
ExistingConflictsOf(p, cal) ==
    MapSeq(SelectSeq(ExistingEventsBetween(cal, p.start, p.end),
                     LAMBDA ev : EventsOverlap(p.start, p.end, ev.start, ev.end)),
           LAMBDA ev : Conflict("overlap",
                                "Planned '" \o p.title
                                  \o "' overlaps with '" \o ev.summary \o "'",
                                <<p.title, ev.summary>>,
                                <<"Adjust the time or reschedule around existing commitments.">>))

ExistingConflicts(planned, cal) ==
    Concat([i \in 1..Len(planned) |-> ExistingConflictsOf(planned[i], cal)])

BoolDefaultTrue(conflicts) == TRUE

Bool(conflicts) == Len(conflicts) > 0

ConflictAgentReport(p, sem, cal) ==
    LET planned == PlannedOccurrences(p, sem)
        conflicts == PlannedConflicts(planned) \o ExistingConflicts(planned, cal)
    IN  ConflictReport(conflicts, Bool(conflicts))

(***************************************************************************)
(* app_agents/negotiation_agent.py                                         *)
(***************************************************************************)
AlternativeSlot(start_iso, end_iso, score) ==
    [start_iso |-> start_iso, end_iso |-> end_iso, score |-> score]

ResolutionOption(operation_index, suggested_start_iso, suggested_end_iso) ==
    [operation_index |-> operation_index,
     suggested_start_iso |-> suggested_start_iso,
     suggested_end_iso |-> suggested_end_iso, note |-> "moved"]

NegotiationOutcome(updated_plan, applied_resolutions, unresolved_conflicts) ==
    [updated_plan |-> updated_plan, applied_resolutions |-> applied_resolutions,
     unresolved_conflicts |-> unresolved_conflicts]

Abs(x) == IF x < 0 THEN -x ELSE x

\* str() of a member of the enum DayOfWeek(str, Enum)
StrDayOfWeek(d) == "DayOfWeek." \o d

\* midnight of the first day on or after `now_day` whose weekday is the one
\* dow_map gives for str(event.day_of_week), 0 when it has none
NextOccurrence(ev, now_day) ==
    LET key == StrDayOfWeek(ev.day_of_week)
        target == IF key \in DOMAIN DowMap THEN DowMap[key] ELSE 0
        delta == (target - Weekday(now_day)) % 7
    IN  now_day + delta

\* _candidate_slots with the day loop written as range(-N, N): the last day
\* of the window is left out
CandidateSlotsExclusiveRange(ev, now_day, search_range, step) ==
    LET base_date == NextOccurrence(ev, now_day)
        s == ParseTimeHHMM(ev.start_time)
        e == ParseTimeHHMM(ev.end_time)
        base_start == ReplaceTime(base_date, s[1], s[2])
        base_end == ReplaceTime(base_date, e[1], e[2])
        duration == base_end - base_start
        n_days == IF search_range < 0 THEN 0 ELSE 2 * search_range
        n_steps == (12 * 60 + step - 1) \div step
    IN  Concat([i \in 1..n_days |->
            LET delta_days == i - 1 - search_range
                day == base_start + delta_days * MinutesPerDay
            IN  [k \in 1..n_steps |->
                    LET start == day + (k - 1) * step
                    IN  <<start, start + duration>>]])

\* the candidates, as pairs <<start, end>>, day by day and step by step
CandidateSlots(ev, now_day, search_range, step) ==
    LET base_date == NextOccurrence(ev, now_day)
        s == ParseTimeHHMM(ev.start_time)
        e == ParseTimeHHMM(ev.end_time)
        base_start == ReplaceTime(base_date, s[1], s[2])
        base_end == ReplaceTime(base_date, e[1], e[2])
        duration == base_end - base_start
        n_days == IF search_range < 0 THEN 0 ELSE 2 * search_range + 1
        n_steps == (12 * 60 + step - 1) \div step
    IN  Concat([i \in 1..n_days |->
            LET delta_days == i - 1 - search_range
                day == base_start + delta_days * MinutesPerDay
            IN  [k \in 1..n_steps |->
                    LET start == day + (k - 1) * step
                    IN  <<start, start + duration>>]])

\* service.freebusy().query(timeMin, timeMax): the busy blocks of the calendar
\* within the window
FreebusyQuery(blocks, time_min, time_max) ==
    MapSeq(SelectSeq(blocks, LAMBDA blk : blk.end > time_min /\ blk.start < time_max),
           LAMBDA blk : [start |-> Max(blk.start, time_min),
                         end |-> Min(blk.end, time_max)])

\* sorted(free_slots, key=score, reverse=True): highest score first, slots of
\* equal score in their order in the list (the sort is stable)
SortedByScore(slots) ==
    LET rank == [i \in 1..Len(slots) |->
                    1 + Cardinality({j \in 1..Len(slots) :
                                        \/ slots[j].score > slots[i].score
                                        \/ slots[j].score = slots[i].score /\ j < i})]
    IN  [p \in 1..Len(slots) |-> slots[CHOOSE i \in 1..Len(slots) : rank[i] = p]]

IsFreeClosed(start, end, busy_blocks) ==
    \A i \in 1..Len(busy_blocks) :
        ~(Max(start, busy_blocks[i].start) <= Min(end, busy_blocks[i].end))

\* is_free: the candidate overlaps no busy block
IsFree(start, end, busy_blocks) ==
    \A i \in 1..Len(busy_blocks) :
        ~(Max(start, busy_blocks[i].start) < Min(end, busy_blocks[i].end))

FilterFreeSlots(candidates, blocks) ==
    IF candidates = <<>> THEN <<>>
    ELSE
        LET starts == {candidates[i][1] : i \in 1..Len(candidates)}
            ends == {candidates[i][2] : i \in 1..Len(candidates)}
            time_min == CHOOSE x \in starts : \A y \in starts : x <= y
            time_max == CHOOSE x \in ends : \A y \in ends : x >= y
            busy_blocks == FreebusyQuery(blocks, time_min, time_max)
            free_slots ==
                MapSeq(SelectSeq(candidates, LAMBDA c : IsFree(c[1], c[2], busy_blocks)),
                       LAMBDA c : AlternativeSlot(Iso(c[1]), Iso(c[2]),
                                                  -(Abs(c[1] - candidates[1][1]) * 60)))
        IN  SortedByScore(free_slots)

FindAlternativeSlotsTool(ev, blocks, now_day, search_range, step) ==
    FilterFreeSlots(CandidateSlots(ev, now_day, search_range, step), blocks)

\* MutationPlan.model_validate_json: requires_confirmation defaults to true
ModelValidatePlan(json) ==
    [operations |-> json.operations, preview |-> json.preview,
     requires_confirmation |->
         IF "requires_confirmation" \in DOMAIN json THEN json.requires_confirmation
         ELSE TRUE]

OperationAtWrapping(idx, ops) ==
    IF idx >= Len(ops) \/ idx < -Len(ops) THEN 0
    ELSE IF idx < 0
         THEN (IF ops[Len(ops) + idx + 1].op = "create_recurring"
               THEN Len(ops) + idx + 1 ELSE 0)
         ELSE (IF ops[idx + 1].op = "create_recurring" THEN idx + 1 ELSE 0)

\* the position in ops (from 1) that a resolution with operation_index idx
\* addresses, 0 when the loop skips it
OperationAt(idx, ops) ==
    IF idx < 0 \/ idx >= Len(ops) THEN 0
    ELSE IF ops[idx + 1].op # "create_recurring" THEN 0
    ELSE idx + 1

ApplyOneStartFirst(op, res) ==
    IF ~res.suggested_start_iso.valid THEN [op |-> op, applied |-> FALSE]
    ELSE IF ~res.suggested_end_iso.valid
         THEN [op |-> [op EXCEPT !.event.start_time =
                                     StrftimeHHMM(res.suggested_start_iso.instant)],
               applied |-> FALSE]
         ELSE [op |-> [op EXCEPT
                          !.event.start_time = StrftimeHHMM(res.suggested_start_iso.instant),
                          !.event.end_time = StrftimeHHMM(res.suggested_end_iso.instant)],
               applied |-> TRUE]

\* the try block: both strings are parsed before the event is rewritten
ApplyOne(op, res) ==
    IF ~res.suggested_start_iso.valid \/ ~res.suggested_end_iso.valid
    THEN [op |-> op, applied |-> FALSE]
    ELSE [op |-> [op EXCEPT
                     !.event.start_time = StrftimeHHMM(res.suggested_start_iso.instant),
                     !.event.end_time = StrftimeHHMM(res.suggested_end_iso.instant)],
          applied |-> TRUE]

RECURSIVE ApplyLoop(_, _, _)
ApplyLoop(ops, resolutions, applied) ==
    IF resolutions = <<>> THEN [ops |-> ops, applied |-> applied]
    ELSE
        LET res == Head(resolutions)
            at == OperationAt(res.operation_index, ops)
        IN  IF at = 0 THEN ApplyLoop(ops, Tail(resolutions), applied)
            ELSE
                LET one == ApplyOne(ops[at], res)
                IN  ApplyLoop([ops EXCEPT ![at] = one.op], Tail(resolutions),
                              IF one.applied THEN Append(applied, res) ELSE applied)

ApplyResolutionsTool(plan_json, res_json) ==
    LET new_plan == ModelValidatePlan(plan_json)
        done == ApplyLoop(new_plan.operations, res_json, <<>>)
    IN  NegotiationOutcome([new_plan EXCEPT !.operations = done.ops], done.applied, <<>>)

(***************************************************************************)
(* app_agents/executor_agent.py                                            *)
(***************************************************************************)
ExecutionResult(op_index, op_type, status) ==
    [op_index |-> op_index, op_type |-> op_type, status |-> status,
     message |-> "message"]

ExecutionReport(plan_preview, total_ops, executed_ops, failed_ops, results) ==
    [plan_preview |-> plan_preview, total_ops |-> total_ops,
     executed_ops |-> executed_ops, failed_ops |-> failed_ops, results |-> results]

ExecutionStatus == {"success", "failed", "skipped"}

\* the op_type the agent writes for a result with index op_index
OpTypeAt(p, op_index) ==
    IF op_index < Len(p.operations) THEN p.operations[op_index + 1].op ELSE "unknown"

\* the tool the agent is told to use for an operation
ToolFor(op) ==
    CASE op.op = "create_recurring" -> "create_recurring_event_tool"
      [] op.op = "update" -> "update_event_tool"
      [] op.op = "delete" -> "delete_event_tool"

\* result.final_output: what the generation service returns for the output type
\* ExecutionReport.  The runner checks it against the fields of ExecutionReport
\* and of ExecutionResult, and run_executor_agent returns it as it is.
FinalOutputs(p) ==
    {ExecutionReport(p.preview, total, executed, failed, results) :
        total \in 0..MaxExecOps, executed \in 0..MaxExecOps, failed \in 0..MaxExecOps,
        results \in SeqsUpTo({ExecutionResult(i, OpTypeAt(p, i), st) :
                                 i \in 0..(MaxExecOps - 1), st \in ExecutionStatus},
                             MaxExecOps)}

(***************************************************************************)
(* Inputs.                                                                 *)
(***************************************************************************)
Intervals == [start : 0..MaxInstant, end : 0..MaxInstant]

SemesterStartDays == 739257 .. (739257 + MaxStartOffset)

\* 2025-01-06 (a Monday) or 2025-01-09 (a Thursday), to 2025-05-01
ConflictSemesters == {SemesterWindow(739257, 739372), SemesterWindow(739260, 739372)}

\* Math 09:00-10:00 and 10:00-11:00, Physics 09:30-10:30, and a Physics entry
\* that ends (09:00) before it starts (10:30)
ConflictClasses ==
    {<<"Math", 540, 600>>, <<"Math", 600, 660>>,
     <<"Physics", 570, 630>>, <<"Physics", 630, 540>>}

ConflictEvents ==
    {ScheduleEvent(c[1], d, c[2], c[3]) : c \in ConflictClasses, d \in {"tue", "wed"}}

\* the operation the planner is asked to build for `event`
PlannedOp(ev, sem) ==
    LET day == FirstOccurrenceDate(sem.semester_start, ev.day_of_week)
    IN  CreateRecurringOp(ev, Iso(day * MinutesPerDay + ev.start_time),
                          Iso(day * MinutesPerDay + ev.end_time),
                          "RRULE:FREQ=WEEKLY")

ConflictOps(sem) ==
    {PlannedOp(ev, sem) : ev \in ConflictEvents}
      \cup {UpdateEventOp("evt1", [summary |-> "Renamed"]), DeleteEventOp("evt2")}

ConflictPlans(sem) ==
    {MutationPlan(ops, "preview") : ops \in SeqsUpTo(ConflictOps(sem), MaxOps)}

\* Wednesday 2025-01-08: 08:00-09:00 and (untitled) 09:30-10:00;
\* Tuesday 2025-01-14: 10:30-12:00
ExistingPool ==
    <<[summary |-> "Gym", start |-> 739259 * MinutesPerDay + 480,
       end |-> 739259 * MinutesPerDay + 540],
      [start |-> 739259 * MinutesPerDay + 570, end |-> 739259 * MinutesPerDay + 600],
      [summary |-> "Dentist", start |-> 739265 * MinutesPerDay + 630,
       end |-> 739265 * MinutesPerDay + 720]>>

\* more events over Wednesday 2025-01-08 09:00-09:30 than one query returns
CrowdedCalendar ==
    [i \in 1..(MaxResults + 1) |->
        [summary |-> "Busy", start |-> 739259 * MinutesPerDay + 540,
         end |-> 739259 * MinutesPerDay + 570]]

Calendars ==
    {SelectSeq(ExistingPool, LAMBDA ev : ev \in keep) : keep \in SUBSET Range(ExistingPool)}
      \cup {CrowdedCalendar}

\* the operations apply_resolutions_tool is given: two planned classes of the
\* week of Monday 2025-01-06, an update and a delete
ApplyOps ==
    {PlannedOp(ScheduleEvent("Math", "wed", 540, 600), SemesterWindow(739257, 739372)),
     PlannedOp(ScheduleEvent("Physics", "wed", 570, 630), SemesterWindow(739257, 739372)),
     UpdateEventOp("evt1", [summary |-> "Renamed"]), DeleteEventOp("evt2")}

ApplyPlans == {MutationPlan(ops, "preview") : ops \in SeqsUpTo(ApplyOps, MaxPlanOps)}

\* Wednesday 2025-01-08 10:30-11:30; Wednesday 23:30 to Thursday 00:30; and a
\* suggestion whose end is no ISO string
SuggestedSlots ==
    {<<Iso(739259 * MinutesPerDay + 630), Iso(739259 * MinutesPerDay + 690)>>,
     <<Iso(739259 * MinutesPerDay + 1410), Iso(739260 * MinutesPerDay + 30)>>,
     <<Iso(739259 * MinutesPerDay + 630), BadIso>>}

Resolutions ==
    {ResolutionOption(idx, slot[1], slot[2]) :
        idx \in (-1)..MaxPlanOps, slot \in SuggestedSlots}

SlotEvents ==
    {ScheduleEvent("Math", "wed", 540, 600), ScheduleEvent("Physics", "mon", 570, 690)}

\* Monday 2025-01-06, Wednesday 01-08, Thursday 01-09 and Sunday 01-12
SlotDays == {739257, 739259, 739260, 739263}

\* 30 is the tool's default; 50 does not divide the twelve hours searched
StepMinutes == {30, 50, 240}

\* Monday 2025-01-06 09:00-10:00, Monday 2025-01-06 13:00-14:00,
\* Monday 2025-01-13 09:30-11:30
BusyPool ==
    <<[start |-> 739257 * MinutesPerDay + 540, end |-> 739257 * MinutesPerDay + 600],
      [start |-> 739257 * MinutesPerDay + 780, end |-> 739257 * MinutesPerDay + 840],
      [start |-> 739264 * MinutesPerDay + 570, end |-> 739264 * MinutesPerDay + 690]>>

BusyCalendars ==
    {SelectSeq(BusyPool, LAMBDA blk : blk \in keep) : keep \in SUBSET Range(BusyPool)}

\* the plans given to the executor: the first operations of a plan that
\* creates a class, renames an event and deletes another
ExecOps ==
    <<PlannedOp(ScheduleEvent("Math", "wed", 540, 600), SemesterWindow(739257, 739372)),
      UpdateEventOp("evt1", [summary |-> "Renamed"]), DeleteEventOp("evt2"),
      PlannedOp(ScheduleEvent("Physics", "tue", 570, 630), SemesterWindow(739257, 739372))>>

ExecPlans ==
    {MutationPlan(Take(ExecOps, n), "preview") : n \in 0..Min(MaxExecOps, Len(ExecOps))}

ExecutorIdle == exec_plan = None /\ tool_calls = None /\ execution_out = None
OverlapIdle == a = None /\ b = None /\ overlap_out = None
FirstOccurrenceIdle ==
    semester_start = None /\ target_dow = None /\ first_occurrence_out = None
ConflictIdle == plan = None /\ semester = None /\ calendar = None /\ conflict_out = None
ApplyIdle ==
    mutation_plan_json = None /\ resolutions_json = None /\ negotiation_out = None
SlotIdle ==
    /\ event_json = None /\ today = None /\ days_search_range = None
    /\ step_minutes = None /\ busy = None /\ slots_out = None
PlannerIdle == events = None /\ planner_semester = None /\ planner_out = None
RoundTripIdle == mutation_plan = None /\ dumped_json = None /\ reparsed_plan = None
SessionIdle ==
    /\ extracted_events = None /\ semester_window = None /\ generated_plan = None
    /\ conflict_report = None /\ negotiation_outcome = None
    /\ execution_report = None /\ managed_calendar = None /\ click = None
RunnerIdle ==
    /\ starting_agent = None /\ max_turns = None /\ current_turn = None
    /\ tool_round_trips = None /\ last_tool = None /\ run_result = None
ToolIdle ==
    /\ called_tool = None /\ tool_args = None /\ calendar_id_env = None
    /\ calendar_items = None /\ api_calls = None /\ tool_out = None
ServiceIdle == RunnerIdle /\ ToolIdle
PipelineIdle == PlannerIdle /\ RoundTripIdle /\ SessionIdle /\ ServiceIdle

(***************************************************************************)
(* SpecOverlap: _events_overlap on every pair of intervals of the grid.    *)
(***************************************************************************)
InitOverlap ==
    /\ a \in Intervals
    /\ b \in Intervals
    /\ overlap_out = None
    /\ FirstOccurrenceIdle
    /\ ConflictIdle
    /\ ApplyIdle
    /\ SlotIdle
    /\ ExecutorIdle
    /\ PipelineIdle

CallEventsOverlap ==
    /\ overlap_out = None
    /\ overlap_out' = [status |-> "returned",
                       ab |-> EventsOverlap(a.start, a.end, b.start, b.end),
                       ba |-> EventsOverlap(b.start, b.end, a.start, a.end)]
    /\ UNCHANGED <<a, b, firstOccurrenceVars, conflictVars, applyVars, slotVars,
                   executorVars,
                   pipelineVars>>

NextOverlap == CallEventsOverlap

SpecOverlap == InitOverlap /\ [][NextOverlap]_vars

(***************************************************************************)
(* SpecFirstOccurrence: _first_occurrence_date on every start day and      *)
(* weekday.                                                                *)
(***************************************************************************)
InitFirstOccurrence ==
    /\ semester_start \in SemesterStartDays
    /\ target_dow \in DayOfWeek
    /\ first_occurrence_out = None
    /\ OverlapIdle
    /\ ConflictIdle
    /\ ApplyIdle
    /\ SlotIdle
    /\ ExecutorIdle
    /\ PipelineIdle

CallFirstOccurrenceDate ==
    /\ first_occurrence_out = None
    /\ first_occurrence_out' =
           [status |-> "returned",
            date |-> FirstOccurrenceDate(semester_start, target_dow)]
    /\ UNCHANGED <<semester_start, target_dow, overlapVars, conflictVars, applyVars,
                   slotVars, executorVars,
                   pipelineVars>>

NextFirstOccurrence == CallFirstOccurrenceDate

SpecFirstOccurrence == InitFirstOccurrence /\ [][NextFirstOccurrence]_vars

(***************************************************************************)
(* SpecConflict: run_conflict_agent on a plan, its semester window and a   *)
(* calendar.  A calendar call that fails raises out of run_conflict_agent. *)
(***************************************************************************)
InitConflict ==
    /\ semester \in ConflictSemesters
    /\ plan \in ConflictPlans(semester)
    /\ calendar \in Calendars
    /\ conflict_out = None
    /\ OverlapIdle
    /\ FirstOccurrenceIdle
    /\ ApplyIdle
    /\ SlotIdle
    /\ ExecutorIdle
    /\ PipelineIdle

RunConflictAgent ==
    /\ conflict_out = None
    /\ conflict_out' = [status |-> "returned",
                        report |-> ConflictAgentReport(plan, semester, calendar)]
    /\ UNCHANGED <<plan, semester, calendar, overlapVars, firstOccurrenceVars, applyVars,
                   slotVars, executorVars,
                   pipelineVars>>

RunConflictAgentRaises ==
    /\ conflict_out = None
    /\ conflict_out' = [status |-> "raised"]
    /\ UNCHANGED <<plan, semester, calendar, overlapVars, firstOccurrenceVars, applyVars,
                   slotVars, executorVars,
                   pipelineVars>>

NextConflict == RunConflictAgent \/ RunConflictAgentRaises

SpecConflict == InitConflict /\ [][NextConflict]_vars

(***************************************************************************)
(* SpecApply: apply_resolutions_tool on a plan and a list of resolutions.  *)
(***************************************************************************)
InitApply ==
    /\ mutation_plan_json \in ApplyPlans
    /\ resolutions_json \in SeqsUpTo(Resolutions, MaxResolutions)
    /\ negotiation_out = None
    /\ OverlapIdle
    /\ FirstOccurrenceIdle
    /\ ConflictIdle
    /\ SlotIdle
    /\ ExecutorIdle
    /\ PipelineIdle

CallApplyResolutionsTool ==
    /\ negotiation_out = None
    /\ negotiation_out' =
           [status |-> "returned",
            outcome |-> ApplyResolutionsTool(mutation_plan_json, resolutions_json)]
    /\ UNCHANGED <<mutation_plan_json, resolutions_json, overlapVars,
                   firstOccurrenceVars, conflictVars, slotVars, executorVars,
                   pipelineVars>>

NextApply == CallApplyResolutionsTool

SpecApply == InitApply /\ [][NextApply]_vars

(***************************************************************************)
(* SpecSlots: find_alternative_slots_tool for an event, on a day, against  *)
(* the busy blocks of a calendar.  A failing calendar call raises.         *)
(***************************************************************************)
InitSlots ==
    /\ event_json \in SlotEvents
    /\ today \in SlotDays
    /\ days_search_range \in 0..MaxSearchRange
    /\ step_minutes \in StepMinutes
    /\ busy \in BusyCalendars
    /\ slots_out = None
    /\ OverlapIdle
    /\ FirstOccurrenceIdle
    /\ ConflictIdle
    /\ ApplyIdle
    /\ ExecutorIdle
    /\ PipelineIdle

CallFindAlternativeSlotsTool ==
    /\ slots_out = None
    /\ slots_out' =
           [status |-> "returned",
            slots |-> FindAlternativeSlotsTool(event_json, busy, today,
                                               days_search_range, step_minutes)]
    /\ UNCHANGED <<event_json, today, days_search_range, step_minutes, busy,
                   overlapVars, firstOccurrenceVars, conflictVars, applyVars,
                   executorVars,
                   pipelineVars>>

FindAlternativeSlotsToolRaises ==
    /\ slots_out = None
    /\ slots_out' = [status |-> "raised"]
    /\ UNCHANGED <<event_json, today, days_search_range, step_minutes, busy,
                   overlapVars, firstOccurrenceVars, conflictVars, applyVars,
                   executorVars,
                   pipelineVars>>

NextSlots == CallFindAlternativeSlotsTool \/ FindAlternativeSlotsToolRaises

SpecSlots == InitSlots /\ [][NextSlots]_vars

(***************************************************************************)
(* SpecExecutor: run_executor_agent.  The agent is run by the generation   *)
(* service: it calls the calendar tools for operations of the plan, each   *)
(* call succeeding or failing at the calendar, and then returns a report.  *)
(* The model lets it take the operations in plan order, leaving any out.   *)
(***************************************************************************)
InitExecutor ==
    /\ exec_plan \in ExecPlans
    /\ tool_calls = <<>>
    /\ execution_out = None
    /\ OverlapIdle
    /\ FirstOccurrenceIdle
    /\ ConflictIdle
    /\ ApplyIdle
    /\ SlotIdle
    /\ PipelineIdle

\* the operations the agent has not come to yet
NotYetCalled ==
    {i \in 0..(Len(exec_plan.operations) - 1) :
        \A k \in 1..Len(tool_calls) : tool_calls[k].op_index < i}

ToolCallSucceeds ==
    /\ execution_out = None
    /\ \E i \in NotYetCalled :
           tool_calls' = Append(tool_calls,
                                [op_index |-> i,
                                 tool |-> ToolFor(exec_plan.operations[i + 1]),
                                 ok |-> TRUE])
    /\ UNCHANGED <<exec_plan, execution_out, overlapVars, firstOccurrenceVars,
                   conflictVars, applyVars, slotVars,
                   pipelineVars>>

ToolCallFails ==
    /\ execution_out = None
    /\ \E i \in NotYetCalled :
           tool_calls' = Append(tool_calls,
                                [op_index |-> i,
                                 tool |-> ToolFor(exec_plan.operations[i + 1]),
                                 ok |-> FALSE])
    /\ UNCHANGED <<exec_plan, execution_out, overlapVars, firstOccurrenceVars,
                   conflictVars, applyVars, slotVars,
                   pipelineVars>>

RunExecutorAgentReturns ==
    /\ execution_out = None
    /\ \E report \in FinalOutputs(exec_plan) :
           execution_out' = [status |-> "returned", report |-> report]
    /\ UNCHANGED <<exec_plan, tool_calls, overlapVars, firstOccurrenceVars,
                   conflictVars, applyVars, slotVars,
                   pipelineVars>>

RunExecutorAgentRaises ==
    /\ execution_out = None
    /\ execution_out' = [status |-> "raised"]
    /\ UNCHANGED <<exec_plan, tool_calls, overlapVars, firstOccurrenceVars,
                   conflictVars, applyVars, slotVars,
                   pipelineVars>>

NextExecutor ==
    \/ ToolCallSucceeds
    \/ ToolCallFails
    \/ RunExecutorAgentReturns
    \/ RunExecutorAgentRaises

SpecExecutor == InitExecutor /\ [][NextExecutor]_vars

(***************************************************************************)
(* Properties.                                                             *)
(***************************************************************************)
Count(seq, P(_)) == Cardinality({i \in 1..Len(seq) : P(seq[i])})

\* the half-open test on two intervals given as records
HalfOpenOverlap(x, y) == Max(x.start, y.start) < Min(x.end, y.end)

\* C1: the overlap test is the half-open test: it holds exactly when the two
\* intervals [start, end) share an instant, it gives the same answer for (A, B)
\* and (B, A), and it is false whenever A.end = B.start.
C1_OverlapSymmetricHalfOpen ==
    overlap_out.status = "returned" =>
        /\ overlap_out.ab = overlap_out.ba
        /\ overlap_out.ab =
               (\E t \in 0..MaxInstant :
                    a.start <= t /\ t < a.end /\ b.start <= t /\ b.end > t)
        /\ (a.end = b.start => ~overlap_out.ab)

\* two proper intervals that touch: A ends where B starts
C1_Witness ==
    /\ overlap_out.status = "returned"
    /\ a.start < a.end /\ a.end = b.start /\ b.start < b.end
    /\ ~overlap_out.ab

\* the first-occurrence interval of a create_recurring operation
FirstInterval(op, sem) ==
    LET day == FirstOccurrenceDate(sem.semester_start, op.event.day_of_week)
    IN  [start |-> day * MinutesPerDay + op.event.start_time,
         end |-> day * MinutesPerDay + op.event.end_time]

CreatedIndices == {i \in 1..Len(plan.operations) : plan.operations[i].op = "create_recurring"}

OverlappingPairs ==
    {ij \in CreatedIndices \X CreatedIndices :
        /\ ij[1] < ij[2]
        /\ HalfOpenOverlap(FirstInterval(plan.operations[ij[1]], semester),
                           FirstInterval(plan.operations[ij[2]], semester))}

\* the conflicts of the planned-vs-planned pass, and those of the
\* planned-vs-existing pass, told apart by their suggestion
PairConflicts(report) ==
    SelectSeq(report.conflicts,
              LAMBDA c : c.suggestions = <<"Shift one of the events to avoid overlap.">>)

CalendarConflicts(report) ==
    SelectSeq(report.conflicts,
              LAMBDA c : c.suggestions # <<"Shift one of the events to avoid overlap.">>)

\* C2: run_conflict_agent reports exactly one Conflict of type overlap per
\* unordered pair (i < j) of create_recurring operations whose first-occurrence
\* intervals overlap, with affected = the two titles in plan order; pairs that
\* share an event are each reported; on an empty calendar nothing else is
\* reported.
C2_OneConflictPerOverlappingPair ==
    conflict_out.status = "returned" =>
        LET pairs == PairConflicts(conflict_out.report)
            ops == plan.operations
        IN  /\ Len(pairs) = Cardinality(OverlappingPairs)
            /\ \A c \in Range(conflict_out.report.conflicts) : c.type = "overlap"
            /\ \A t1, t2 \in {"Math", "Physics"} :
                   Count(pairs, LAMBDA c : c.affected = <<t1, t2>>) =
                       Cardinality({ij \in OverlappingPairs :
                                       /\ ops[ij[1]].event.title = t1
                                       /\ ops[ij[2]].event.title = t2})
            /\ (calendar = <<>> =>
                   Len(conflict_out.report.conflicts) = Cardinality(OverlappingPairs))

\* wed 09:00-10:00 and wed 09:30-10:30 on an empty calendar: one Conflict
C2_Witness ==
    /\ conflict_out.status = "returned"
    /\ calendar = <<>>
    /\ Len(plan.operations) = 2
    /\ plan.operations[1].op = "create_recurring"
    /\ plan.operations[2].op = "create_recurring"
    /\ plan.operations[1].event = ScheduleEvent("Math", "wed", 540, 600)
    /\ plan.operations[2].event = ScheduleEvent("Physics", "wed", 570, 630)
    /\ Len(conflict_out.report.conflicts) = 1
    /\ conflict_out.report.conflicts[1].type = "overlap"
    /\ conflict_out.report.conflicts[1].affected = <<"Math", "Physics">>

SummaryOf(ev) == IF "summary" \in DOMAIN ev THEN ev.summary ELSE "(busy)"

\* the (operation, calendar event) pairs that overlap under the half-open test
OverlappingExisting ==
    {ik \in CreatedIndices \X (1..Len(calendar)) :
        HalfOpenOverlap(FirstInterval(plan.operations[ik[1]], semester), calendar[ik[2]])}

\* C3: for every planned first-occurrence interval, run_conflict_agent reports
\* one overlap Conflict for each existing calendar event that overlaps it under
\* the half-open test, and none for an event that only touches it.
C3_OneConflictPerOverlappingExisting ==
    conflict_out.status = "returned" =>
        LET found == CalendarConflicts(conflict_out.report)
            ops == plan.operations
        IN  /\ Len(found) = Cardinality(OverlappingExisting)
            /\ \A t \in {"Math", "Physics"}, s \in {"Gym", "(busy)", "Dentist", "Busy"} :
                   Count(found, LAMBDA c : c.affected = <<t, s>>) =
                       Cardinality({ik \in OverlappingExisting :
                                       /\ ops[ik[1]].event.title = t
                                       /\ SummaryOf(calendar[ik[2]]) = s})

\* C4: a returned ConflictReport has blocking = true iff its conflicts list is
\* non-empty.
C4_BlockingIffConflicts ==
    conflict_out.status = "returned" =>
        (conflict_out.report.blocking <=> conflict_out.report.conflicts # <<>>)

\* a report with conflicts, which blocks
C4_Witness ==
    /\ conflict_out.status = "returned"
    /\ Len(conflict_out.report.conflicts) >= 2
    /\ conflict_out.report.blocking

C6_OneResultPerOperation ==
    execution_out.status = "returned" =>
        LET report == execution_out.report
            ops == exec_plan.operations
        IN  /\ Len(report.results) = Len(ops)
            /\ \A i \in 1..Len(report.results) : report.results[i].op_index = i - 1
            /\ report.total_ops = Len(ops)
            /\ report.executed_ops =
                   Count(report.results, LAMBDA r : r.status = "success")
            /\ report.failed_ops =
                   Count(report.results, LAMBDA r : r.status = "failed")

\* C7: when the calendar call of an operation fails, the report records status
\* failed for that operation and every later operation has still been
\* attempted; a 3-operation plan whose second call fails gives total_ops = 3,
\* executed_ops = 2, failed_ops = 1 and three results in plan order.
C7_FailureDoesNotAbortBatch ==
    execution_out.status = "returned" =>
        LET report == execution_out.report
            ops == exec_plan.operations
        IN  /\ \A k \in 1..Len(tool_calls) :
                   ~tool_calls[k].ok =>
                       /\ \E r \in Range(report.results) :
                              /\ r.op_index = tool_calls[k].op_index
                              /\ r.status = "failed"
                       /\ \A j \in (tool_calls[k].op_index + 1)..(Len(ops) - 1) :
                              \E c \in Range(tool_calls) : c.op_index = j
            /\ (/\ Len(ops) = 3
                /\ Len(tool_calls) = 3
                /\ tool_calls[1].ok /\ ~tool_calls[2].ok /\ tool_calls[3].ok
                    => /\ report.total_ops = 3
                       /\ report.executed_ops = 2
                       /\ report.failed_ops = 1
                       /\ Len(report.results) = 3
                       /\ \A i \in 1..3 : report.results[i].op_index = i - 1)

\* a resolution that the loop applies: its index addresses a create_recurring
\* operation of the plan and both its strings parse
Applicable(res) ==
    LET ops == mutation_plan_json.operations
        idx == res.operation_index
    IN  /\ idx >= 0 /\ idx < Len(ops)
        /\ ops[idx + 1].op = "create_recurring"
        /\ res.suggested_start_iso.valid /\ res.suggested_end_iso.valid

\* position i of the plan after the applicable resolutions alone were applied:
\* the last that addresses it decides its times
ExpectedOp(i) ==
    LET op == mutation_plan_json.operations[i]
        hits == {k \in 1..Len(resolutions_json) :
                    /\ Applicable(resolutions_json[k])
                    /\ resolutions_json[k].operation_index = i - 1}
    IN  IF hits = {} THEN op
        ELSE LET last == resolutions_json[CHOOSE k \in hits : \A m \in hits : m <= k]
             IN  [op EXCEPT
                     !.event.start_time = last.suggested_start_iso.instant % 1440,
                     !.event.end_time = last.suggested_end_iso.instant % 1440]

\* C8: apply_resolutions_tool ignores, without raising, every resolution whose
\* operation_index is negative, is >= the number of operations, or addresses an
\* update or delete operation: it is not listed in applied_resolutions, it
\* changes no operation, and the outcome is the one the remaining resolutions
\* give.
C8_InvalidResolutionsIgnored ==
    negotiation_out # None =>
        /\ negotiation_out.status = "returned"
        /\ negotiation_out.outcome.applied_resolutions =
               SelectSeq(resolutions_json, Applicable)
        /\ Len(negotiation_out.outcome.updated_plan.operations) =
               Len(mutation_plan_json.operations)
        /\ \A i \in 1..Len(mutation_plan_json.operations) :
               negotiation_out.outcome.updated_plan.operations[i] = ExpectedOp(i)

\* a resolution with index -1 and one addressing an update are skipped, and
\* the valid one between them is applied
C8_Witness ==
    /\ negotiation_out.status = "returned"
    /\ Len(resolutions_json) = 2
    /\ Len(mutation_plan_json.operations) = 2
    /\ mutation_plan_json.operations[2].op = "update"
    /\ resolutions_json[1].operation_index = 1
    /\ resolutions_json[2].operation_index = 0
    /\ negotiation_out.outcome.applied_resolutions = <<resolutions_json[2]>>
    /\ negotiation_out.outcome.updated_plan.operations[1] # mutation_plan_json.operations[1]
    /\ negotiation_out.outcome.updated_plan.operations[2] = mutation_plan_json.operations[2]

\* C9: the returned plan has as many operations as the input plan, of the same
\* kind at every index, and every operation whose index no applied resolution
\* names equals the input operation at that index.
C9_UnreferencedOpsUnchanged ==
    negotiation_out.status = "returned" =>
        LET old == mutation_plan_json.operations
            new == negotiation_out.outcome.updated_plan.operations
            named == {r.operation_index :
                         r \in Range(negotiation_out.outcome.applied_resolutions)}
        IN  /\ Len(new) = Len(old)
            /\ \A i \in 1..Len(old) :
                   /\ new[i].op = old[i].op
                   /\ (i - 1 \notin named => new[i] = old[i])

\* one of two create_recurring operations is rewritten, the other kept
C9_Witness ==
    /\ negotiation_out.status = "returned"
    /\ Len(mutation_plan_json.operations) = 2
    /\ mutation_plan_json.operations[1].op = "create_recurring"
    /\ mutation_plan_json.operations[2].op = "create_recurring"
    /\ Len(negotiation_out.outcome.applied_resolutions) = 1
    /\ negotiation_out.outcome.applied_resolutions[1].operation_index = 1
    /\ negotiation_out.outcome.updated_plan.operations[1] = mutation_plan_json.operations[1]
    /\ negotiation_out.outcome.updated_plan.operations[2] # mutation_plan_json.operations[2]

\* the start the slot search is centred on: the event's start time on the day
\* _next_occurrence returns
OriginalStart ==
    NextOccurrence(event_json, today) * MinutesPerDay + event_json.start_time

\* C10: each free slot has score minus the time distance (in seconds) between
\* its start and the event's original start, the list is sorted by score
\* descending, and so the first slot is the free slot closest to the original
\* start.
C10_ScoreIsDistanceFromOriginalStart ==
    slots_out.status = "returned" =>
        LET slots == slots_out.slots
        IN  /\ \A i \in 1..Len(slots) :
                   slots[i].score = -(Abs(slots[i].start_iso.instant - OriginalStart) * 60)
            /\ \A i \in 1..(Len(slots) - 1) : slots[i].score >= slots[i + 1].score
            /\ \A i \in 1..Len(slots) :
                   Abs(slots[1].start_iso.instant - OriginalStart) <=
                       Abs(slots[i].start_iso.instant - OriginalStart)


\* the weekday a returned slot starts on
SlotWeekday(slot) == Weekday(slot.start_iso.instant \div MinutesPerDay)

\* C11: whenever the returned list holds a free slot on the event's own
\* day of the week and a free slot on another day, the top-ranked slot is on
\* the event's own day.
C11_SameDayPreferred ==
    slots_out.status = "returned" =>
        LET slots == slots_out.slots
            own == DowMap[event_json.day_of_week]
        IN  (/\ \E i \in 1..Len(slots) : SlotWeekday(slots[i]) = own
             /\ \E i \in 1..Len(slots) : SlotWeekday(slots[i]) # own)
                => SlotWeekday(slots[1]) = own

\* the candidates with no busy block of the calendar overlapping them under
\* the half-open test, by position in the candidate list
FreeCandidates ==
    LET cands == CandidateSlots(event_json, today, days_search_range, step_minutes)
    IN  {i \in 1..Len(cands) :
            \A k \in 1..Len(busy) :
                ~HalfOpenOverlap([start |-> cands[i][1], end |-> cands[i][2]], busy[k])}

MaxEvents == 2

\* the operations a plan returned for `evs` is built from: the operation the
\* instructions ask for, for any of the events, and a delete
PlannerOpPool(evs, sem) ==
    {PlannedOp(evs[i], sem) : i \in 1..Len(evs)} \cup {DeleteEventOp("evt2")}

\* result.final_output: what the generation service returns for the output
\* type MutationPlan (strict_json_schema=False).  The runner checks it against
\* the fields of MutationPlan, and run_planner_agent returns it as it is.
PlannerOutputs(evs, sem) ==
    {[MutationPlan(ops, "preview") EXCEPT !.requires_confirmation = flag] :
        ops \in SeqsUpTo(PlannerOpPool(evs, sem), Len(evs)), flag \in BOOLEAN}

\* two classes that overlap on Wednesday, a lab that ends before it starts
\* and a seminar that ends when it starts
PlannerEvents ==
    {ScheduleEvent("Math", "wed", 540, 600), ScheduleEvent("Physics", "wed", 570, 630),
     ScheduleEvent("Lab", "tue", 630, 540), ScheduleEvent("Seminar", "thu", 600, 600)}

PlannerEventLists == SeqsUpTo(PlannerEvents, MaxEvents)

(***************************************************************************)
(* SpecPlanner: run_planner_agent on a list of schedule entries and a      *)
(* semester window.                                                        *)
(***************************************************************************)
InitPlanner ==
    /\ events \in PlannerEventLists
    /\ planner_semester = SemesterWindow(739257, 739372)
    /\ planner_out = None
    /\ OverlapIdle
    /\ FirstOccurrenceIdle
    /\ ConflictIdle
    /\ ApplyIdle
    /\ SlotIdle
    /\ ExecutorIdle
    /\ RoundTripIdle
    /\ SessionIdle
    /\ ServiceIdle

RunPlannerAgentReturns ==
    /\ planner_out = None
    /\ \E final_output \in PlannerOutputs(events, planner_semester) :
           planner_out' = [status |-> "returned", plan |-> final_output]
    /\ UNCHANGED <<events, planner_semester, overlapVars, firstOccurrenceVars,
                   conflictVars, applyVars, slotVars, executorVars, roundTripVars,
                   sessionVars, serviceVars>>

RunPlannerAgentRaises ==
    /\ planner_out = None
    /\ planner_out' = [status |-> "raised"]
    /\ UNCHANGED <<events, planner_semester, overlapVars, firstOccurrenceVars,
                   conflictVars, applyVars, slotVars, executorVars, roundTripVars,
                   sessionVars, serviceVars>>

NextPlanner == RunPlannerAgentReturns \/ RunPlannerAgentRaises

SpecPlanner == InitPlanner /\ [][NextPlanner]_vars

\* C17: the planner's plan holds only create_recurring operations, one per
\* input event whose end_time is after its start_time, in input order; the
\* events with end_time <= start_time are dropped, so a list with one such
\* event gives one operation fewer than events.
C17_PlannerKeepsValidEventsOnly ==
    planner_out.status = "returned" =>
        LET ops == planner_out.plan.operations
            valid == SelectSeq(events, LAMBDA ev : ev.end_time > ev.start_time)
        IN  /\ \A i \in 1..Len(ops) : ops[i].op = "create_recurring"
            /\ Len(ops) = Len(valid)
            /\ \A i \in 1..Len(ops) : ops[i].event = valid[i]
            /\ (Len(valid) = Len(events) - 1 => Len(ops) = Len(events) - 1)


(***************************************************************************)
(* models.py: a MutationPlan as JSON text.  The text of an object is the   *)
(* sequence of its <<key, value>> members in the order they are written.   *)
(***************************************************************************)
\* ScheduleEvent.model_dump_json: the fields in declaration order, the enum
\* day_of_week as its value
DumpEvent(ev) ==
    <<<<"title", ev.title>>, <<"day_of_week", ev.day_of_week>>,
      <<"start_time", ev.start_time>>, <<"end_time", ev.end_time>>,
      <<"recurrence", ev.recurrence>>>>

DumpOp(op) ==
    CASE op.op = "create_recurring" ->
             <<<<"op", op.op>>, <<"event", DumpEvent(op.event)>>,
               <<"first_start_iso", op.first_start_iso>>,
               <<"first_end_iso", op.first_end_iso>>, <<"rrule", op.rrule>>>>
      [] op.op = "update" ->
             <<<<"op", op.op>>, <<"google_event_id", op.google_event_id>>,
               <<"patch", op.patch>>>>
      [] op.op = "delete" ->
             <<<<"op", op.op>>, <<"google_event_id", op.google_event_id>>>>

ModelDumpJsonWithoutFlag(p) ==
    <<<<"operations", MapSeq(p.operations, DumpOp)>>, <<"preview", p.preview>>>>

\* MutationPlan.model_dump_json
ModelDumpJson(p) ==
    <<<<"operations", MapSeq(p.operations, DumpOp)>>, <<"preview", p.preview>>,
      <<"requires_confirmation", p.requires_confirmation>>>>

\* the keys of a JSON object, and the value of one of them
Keys(obj) == {obj[i][1] : i \in 1..Len(obj)}

Get(obj, key) == obj[CHOOSE i \in 1..Len(obj) : obj[i][1] = key][2]

\* a value that failed validation
Invalid == [valid |-> FALSE]

\* ScheduleEvent: extra keys are forbidden, recurrence defaults to weekly
ValidateEvent(obj) ==
    IF /\ {"title", "day_of_week", "start_time", "end_time"} \subseteq Keys(obj)
       /\ Keys(obj) \subseteq
              {"title", "day_of_week", "start_time", "end_time", "recurrence"}
       /\ Get(obj, "day_of_week") \in DayOfWeek
       /\ ("recurrence" \in Keys(obj) =>
               Get(obj, "recurrence") \in {"weekly", "once", "unknown"})
    THEN [title |-> Get(obj, "title"), day_of_week |-> Get(obj, "day_of_week"),
          start_time |-> Get(obj, "start_time"), end_time |-> Get(obj, "end_time"),
          recurrence |-> IF "recurrence" \in Keys(obj) THEN Get(obj, "recurrence")
                         ELSE "weekly"]
    ELSE Invalid

\* the literal field op: absent, or the literal of the class
OpIs(obj, literal) == "op" \in Keys(obj) => Get(obj, "op") = literal

\* MutationOp = Union[CreateRecurringOp, UpdateEventOp, DeleteEventOp]: the
\* member the object validates as
ValidateOp(obj) ==
    IF /\ OpIs(obj, "create_recurring")
       /\ {"event", "first_start_iso", "first_end_iso", "rrule"} \subseteq Keys(obj)
       /\ Keys(obj) \subseteq {"op", "event", "first_start_iso", "first_end_iso", "rrule"}
       /\ ValidateEvent(Get(obj, "event")) # Invalid
    THEN CreateRecurringOp(ValidateEvent(Get(obj, "event")), Get(obj, "first_start_iso"),
                           Get(obj, "first_end_iso"), Get(obj, "rrule"))
    ELSE IF /\ OpIs(obj, "update")
            /\ {"google_event_id", "patch"} \subseteq Keys(obj)
            /\ Keys(obj) \subseteq {"op", "google_event_id", "patch"}
    THEN UpdateEventOp(Get(obj, "google_event_id"), Get(obj, "patch"))
    ELSE IF /\ OpIs(obj, "delete")
            /\ "google_event_id" \in Keys(obj)
            /\ Keys(obj) \subseteq {"op", "google_event_id"}
    THEN DeleteEventOp(Get(obj, "google_event_id"))
    ELSE Invalid

\* MutationPlan.model_validate_json on a JSON text: a plan, or a validation
\* error
ModelValidateJson(text) ==
    IF /\ {"operations", "preview"} \subseteq Keys(text)
       /\ Keys(text) \subseteq {"operations", "preview", "requires_confirmation"}
       /\ \A i \in 1..Len(Get(text, "operations")) :
              ValidateOp(Get(text, "operations")[i]) # Invalid
    THEN ModelValidatePlan(
             IF "requires_confirmation" \in Keys(text)
             THEN [operations |-> MapSeq(Get(text, "operations"), ValidateOp),
                   preview |-> Get(text, "preview"),
                   requires_confirmation |-> Get(text, "requires_confirmation")]
             ELSE [operations |-> MapSeq(Get(text, "operations"), ValidateOp),
                   preview |-> Get(text, "preview")])
    ELSE Invalid

\* the plans that are written out: those given to apply_resolutions_tool, with
\* either value of the confirmation flag
RoundTripPlans ==
    {[pl EXCEPT !.requires_confirmation = flag] : pl \in ApplyPlans, flag \in BOOLEAN}

(***************************************************************************)
(* SpecRoundTrip: run_negotiation_agent writes the plan as JSON text, and  *)
(* apply_resolutions_tool parses the text back.                            *)
(***************************************************************************)
InitRoundTrip ==
    /\ mutation_plan \in RoundTripPlans
    /\ dumped_json = None
    /\ reparsed_plan = None
    /\ OverlapIdle
    /\ FirstOccurrenceIdle
    /\ ConflictIdle
    /\ ApplyIdle
    /\ SlotIdle
    /\ ExecutorIdle
    /\ PlannerIdle
    /\ SessionIdle
    /\ ServiceIdle

CallModelDumpJson ==
    /\ dumped_json = None
    /\ dumped_json' = ModelDumpJson(mutation_plan)
    /\ UNCHANGED <<mutation_plan, reparsed_plan, overlapVars, firstOccurrenceVars,
                   conflictVars, applyVars, slotVars, executorVars, plannerVars,
                   sessionVars, serviceVars>>

CallModelValidateJson ==
    /\ dumped_json # None
    /\ reparsed_plan = None
    /\ reparsed_plan' = ModelValidateJson(dumped_json)
    /\ UNCHANGED <<mutation_plan, dumped_json, overlapVars, firstOccurrenceVars,
                   conflictVars, applyVars, slotVars, executorVars, plannerVars,
                   sessionVars, serviceVars>>

NextRoundTrip == CallModelDumpJson \/ CallModelValidateJson

SpecRoundTrip == InitRoundTrip /\ [][NextRoundTrip]_vars

\* C20: a MutationPlan written as JSON and parsed back is equal to the plan
\* field for field: the same operations of the same kinds in the same order,
\* the same preview and the same requires_confirmation flag.
C20_PlanRoundTrip ==
    reparsed_plan # None =>
        /\ reparsed_plan # Invalid
        /\ Len(reparsed_plan.operations) = Len(mutation_plan.operations)
        /\ \A i \in 1..Len(mutation_plan.operations) :
               /\ reparsed_plan.operations[i].op = mutation_plan.operations[i].op
               /\ reparsed_plan.operations[i] = mutation_plan.operations[i]
        /\ reparsed_plan.preview = mutation_plan.preview
        /\ reparsed_plan.requires_confirmation = mutation_plan.requires_confirmation

\* a plan with a create_recurring and an update operation and the flag false
\* has been written and parsed back
C20_Witness ==
    /\ reparsed_plan # None
    /\ reparsed_plan # Invalid
    /\ Len(mutation_plan.operations) = 2
    /\ mutation_plan.operations[1].op = "create_recurring"
    /\ mutation_plan.operations[2].op = "update"
    /\ ~mutation_plan.requires_confirmation
    /\ ~reparsed_plan.requires_confirmation


(***************************************************************************)
(* app.py: the session.  st.session_state holds the artifacts; each button *)
(* of the upload tab is one handler.  `click` is the button the user       *)
(* pressed last, with the dates entered for "Generate plan", the stage the *)
(* handler invoked and how that call ended.                                *)
(***************************************************************************)
\* a bound of the model: the most events the managed calendar holds
MaxCalendarEvents == 2

outsideSession ==
    <<overlapVars, firstOccurrenceVars, conflictVars, applyVars, slotVars,
      executorVars, plannerVars, roundTripVars, serviceVars>>

Click(button, invoked, outcome) ==
    [button |-> button, invoked |-> invoked, outcome |-> outcome]

GenerateClick(start, end, invoked, outcome) ==
    [button |-> "generate", invoked |-> invoked, outcome |-> outcome,
     semester_start |-> start, semester_end |-> end]

SemesterRejectedOrEqual(start, end) == end <= start

\* if semester_end < semester_start: st.error
SemesterRejected(start, end) == end < start

\* what the document agent extracts from the uploaded file: nothing, or one
\* class
SessionEventLists == {<<>>, <<ScheduleEvent("Math", "wed", 540, 600)>>}

\* the dates of the two date inputs: Monday 2025-01-06 and Tuesday 2025-01-07
SessionDates == {739257, 739258}

\* the managed calendar when the session starts: empty, or one untitled event
\* on Wednesday 2025-01-08 09:30-10:00
SessionCalendars == {<<>>, <<ExistingPool[2]>>}

\* the slot the negotiator suggests: Wednesday 2025-01-08 10:30-11:30
SessionSlot == <<Iso(739259 * MinutesPerDay + 630), Iso(739259 * MinutesPerDay + 690)>>

\* the resolution lists the negotiation agent hands to apply_resolutions_tool:
\* none, or one that moves an operation of the plan to the suggested slot
SessionResolutions(p) ==
    {<<>>} \cup {<<ResolutionOption(idx, SessionSlot[1], SessionSlot[2])>> :
                    idx \in 0..(Len(p.operations) - 1)}

\* the free-text entries for the conflicts of a report
ConflictTexts(rep) == MapSeq(rep.conflicts, LAMBDA c : c.summary)

\* result.final_output of the negotiation agent: the outcome that
\* apply_resolutions_tool gave it, returned as it is or with the conflicts of
\* the report listed as unresolved
NegotiationOutputs(p, rep) ==
    {[ApplyResolutionsTool(p, res) EXCEPT !.unresolved_conflicts = texts] :
        res \in SessionResolutions(p), texts \in {<<>>, ConflictTexts(rep)}}

\* the report for a plan whose operations all succeeded
AllSucceeded(p) ==
    ExecutionReport(p.preview, Len(p.operations), Len(p.operations), 0,
                    [i \in 1..Len(p.operations) |->
                        ExecutionResult(i - 1, p.operations[i].op, "success")])

\* the reports the session sees from the executor: every operation applied,
\* or nothing applied and an empty report
SessionReports(p) ==
    {AllSucceeded(p), ExecutionReport(p.preview, 0, 0, 0, <<>>)}

\* the events create_recurring_event_tool adds for the plan: the first
\* occurrence of each create_recurring operation
CreatedEvents(p) ==
    MapSeq(SelectSeq(p.operations,
                     LAMBDA op : /\ op.op = "create_recurring"
                                 /\ op.first_start_iso.valid /\ op.first_end_iso.valid),
           LAMBDA op : [summary |-> op.event.title,
                        start |-> op.first_start_iso.instant,
                        end |-> op.first_end_iso.instant])

\* the calendar with the events added, ordered by start time as the calendar
\* lists them
CalendarWith(cal, added) ==
    LET all == cal \o added
        rank == [i \in 1..Len(all) |->
                    1 + Cardinality({j \in 1..Len(all) :
                                        \/ all[j].start < all[i].start
                                        \/ all[j].start = all[i].start /\ j < i})]
    IN  [q \in 1..Len(all) |-> all[CHOOSE i \in 1..Len(all) : rank[i] = q]]


(***************************************************************************)
(* SpecSession: a session of the upload tab.                               *)
(***************************************************************************)
InitSession ==
    /\ extracted_events = <<>>
    /\ semester_window = None
    /\ generated_plan = None
    /\ conflict_report = None
    /\ negotiation_outcome = None
    /\ execution_report = None
    /\ managed_calendar \in SessionCalendars
    /\ click = Click("none", "none", "none")
    /\ OverlapIdle
    /\ FirstOccurrenceIdle
    /\ ConflictIdle
    /\ ApplyIdle
    /\ SlotIdle
    /\ ExecutorIdle
    /\ PlannerIdle
    /\ RoundTripIdle
    /\ ServiceIdle

\* "Extract schedule from file"
ExtractSchedule ==
    /\ \E extracted \in SessionEventLists : extracted_events' = extracted
    /\ click' = Click("extract", "document", "returned")
    /\ UNCHANGED <<semester_window, generated_plan, conflict_report,
                   negotiation_outcome, execution_report, managed_calendar,
                   outsideSession>>

\* "Generate plan" with semester_end < semester_start
GeneratePlanRejected ==
    /\ extracted_events # <<>>
    /\ \E start \in SessionDates, end \in SessionDates :
           /\ SemesterRejected(start, end)
           /\ click' = GenerateClick(start, end, "none", "rejected")
    /\ UNCHANGED <<extracted_events, semester_window, generated_plan, conflict_report,
                   negotiation_outcome, execution_report, managed_calendar,
                   outsideSession>>

\* "Generate plan"
GeneratePlan ==
    /\ extracted_events # <<>>
    /\ \E start \in SessionDates, end \in SessionDates :
           /\ ~SemesterRejected(start, end)
           /\ semester_window' = SemesterWindow(start, end)
           /\ generated_plan' \in PlannerOutputs(extracted_events, semester_window')
           /\ click' = GenerateClick(start, end, "planner", "returned")
    /\ conflict_report' = None
    /\ execution_report' = None
    /\ UNCHANGED <<extracted_events, negotiation_outcome, managed_calendar,
                   outsideSession>>

\* "Generate plan" when run_planner_agent raises: the window is already stored
GeneratePlanRaises ==
    /\ extracted_events # <<>>
    /\ \E start \in SessionDates, end \in SessionDates :
           /\ ~SemesterRejected(start, end)
           /\ semester_window' = SemesterWindow(start, end)
           /\ click' = GenerateClick(start, end, "planner", "raised")
    /\ UNCHANGED <<extracted_events, generated_plan, conflict_report,
                   negotiation_outcome, execution_report, managed_calendar,
                   outsideSession>>

\* "Detect conflicts"
DetectConflicts ==
    /\ generated_plan # None
    /\ semester_window # None
    /\ conflict_report' =
           ConflictAgentReport(generated_plan, semester_window, managed_calendar)
    /\ click' = Click("detect", "conflict", "returned")
    /\ UNCHANGED <<extracted_events, semester_window, generated_plan,
                   negotiation_outcome, execution_report, managed_calendar,
                   outsideSession>>

DetectConflictsRaises ==
    /\ generated_plan # None
    /\ semester_window # None
    /\ click' = Click("detect", "conflict", "raised")
    /\ UNCHANGED <<extracted_events, semester_window, generated_plan, conflict_report,
                   negotiation_outcome, execution_report, managed_calendar,
                   outsideSession>>

\* "Auto-resolve conflicts" with no conflict report: st.error
AutoResolveRejected ==
    /\ generated_plan # None
    /\ conflict_report = None
    /\ click' = Click("resolve", "none", "rejected")
    /\ UNCHANGED <<extracted_events, semester_window, generated_plan, conflict_report,
                   negotiation_outcome, execution_report, managed_calendar,
                   outsideSession>>

\* "Auto-resolve conflicts"
AutoResolve ==
    /\ generated_plan # None
    /\ conflict_report # None
    /\ \E final_output \in NegotiationOutputs(generated_plan, conflict_report) :
           /\ negotiation_outcome' = final_output
           /\ generated_plan' = final_output.updated_plan
    /\ execution_report' = None
    /\ click' = Click("resolve", "negotiator", "returned")
    /\ UNCHANGED <<extracted_events, semester_window, conflict_report,
                   managed_calendar, outsideSession>>

AutoResolveRaises ==
    /\ generated_plan # None
    /\ conflict_report # None
    /\ click' = Click("resolve", "negotiator", "raised")
    /\ UNCHANGED <<extracted_events, semester_window, generated_plan, conflict_report,
                   negotiation_outcome, execution_report, managed_calendar,
                   outsideSession>>

\* "Apply this plan to my managed calendar"
ApplyPlan ==
    /\ generated_plan # None
    /\ \E final_output \in SessionReports(generated_plan) :
           /\ execution_report' = final_output
           /\ managed_calendar' =
                  IF final_output.results = <<>> THEN managed_calendar
                  ELSE CalendarWith(managed_calendar, CreatedEvents(generated_plan))
    /\ Len(managed_calendar') <= MaxCalendarEvents
    /\ click' = Click("apply", "executor", "returned")
    /\ UNCHANGED <<extracted_events, semester_window, generated_plan, conflict_report,
                   negotiation_outcome, outsideSession>>

ApplyPlanRaises ==
    /\ generated_plan # None
    /\ click' = Click("apply", "executor", "raised")
    /\ UNCHANGED <<extracted_events, semester_window, generated_plan, conflict_report,
                   negotiation_outcome, execution_report, managed_calendar,
                   outsideSession>>

NextSession ==
    \/ ExtractSchedule
    \/ GeneratePlanRejected
    \/ GeneratePlan
    \/ GeneratePlanRaises
    \/ DetectConflicts
    \/ DetectConflictsRaises
    \/ AutoResolveRejected
    \/ AutoResolve
    \/ AutoResolveRaises
    \/ ApplyPlan
    \/ ApplyPlanRaises

SpecSession == InitSession /\ [][NextSession]_vars


\* the titles of the operations the applied resolutions of an outcome moved
MovedTitles(outcome_) ==
    {outcome_.updated_plan.operations[r.operation_index + 1].event.title :
        r \in Range(outcome_.applied_resolutions)}

\* C13: after a negotiation, every conflict of the report it was given is
\* either covered by an applied resolution (one that moves an operation the
\* conflict names) or listed in unresolved_conflicts; none is dropped.
C13_NoConflictDropped ==
    (click.button = "resolve" /\ click.outcome = "returned") =>
        \A i \in 1..Len(conflict_report.conflicts) :
            LET c == conflict_report.conflicts[i]
            IN  \/ Range(c.affected) \cap MovedTitles(negotiation_outcome) # {}
                \/ c.summary \in Range(negotiation_outcome.unresolved_conflicts)

\* C14: each stage is invoked only after the stage before it has produced its
\* artifact: the detector only with a plan, the negotiator only with a
\* conflict report, and the executor never without a conflict report.
C14_StagesInOrder ==
    /\ click.invoked = "conflict" => generated_plan # None
    /\ click.invoked = "negotiator" => generated_plan # None /\ conflict_report # None
    /\ click.invoked = "executor" => generated_plan # None /\ conflict_report # None

\* C15: every plan held by the session, from the planner or as the
\* negotiator's updated_plan, has requires_confirmation = true, and the
\* executor is invoked only by the "apply" button.
C15_PlansRequireConfirmation ==
    /\ generated_plan # None => generated_plan.requires_confirmation
    /\ negotiation_outcome # None =>
           negotiation_outcome.updated_plan.requires_confirmation
    /\ click.invoked = "executor" => click.button = "apply"

\* C16: a "Generate plan" click with semester_end < semester_start invokes no
\* stage and leaves semester_window, generated_plan, conflict_report and
\* execution_report as they were; with semester_end >= semester_start (equal
\* dates included) the planner is invoked.
C16_BadSemesterRejectedBeforePlanner ==
    [][click'.button = "generate" =>
          IF click'.semester_end < click'.semester_start
          THEN /\ click'.invoked = "none"
               /\ UNCHANGED <<semester_window, generated_plan, conflict_report,
                              execution_report>>
          ELSE click'.invoked = "planner"]_vars

\* a rejected click in a session that holds a plan, a conflict report and an
\* execution report
C16_Witness ==
    /\ click.button = "generate"
    /\ click.semester_end < click.semester_start
    /\ click.invoked = "none"
    /\ semester_window # None
    /\ generated_plan # None
    /\ conflict_report # None
    /\ execution_report # None

\* C19: a negotiation leaves the plan it was given in the session: after the
\* step the pre-negotiation plan is still one of the plans the session holds,
\* beside the revised plan.
C19_OldPlanKept ==
    [][(click'.button = "resolve" /\ click'.outcome = "returned") =>
          \/ generated_plan' = generated_plan
          \/ (negotiation_outcome'.updated_plan = generated_plan
                /\ generated_plan' # negotiation_outcome'.updated_plan)]_vars


\* ---------------------------------------------------------------------------
\* The slot search's base date and candidates (negotiation_agent.py)
\* ---------------------------------------------------------------------------

\* the first date on or after the given day that falls on the event's day of
\* the week
NaturalOccurrence(ev, now_day) ==
    CHOOSE d \in now_day..(now_day + 6) : Weekday(d) = DowMap[ev.day_of_week]

\* C22: the base date of the slot search is the first date on or after today
\* whose weekday is the event's day_of_week, so with a search range of zero
\* every returned slot starts on that date.
C22_BaseDateIsNextNaturalOccurrence ==
    slots_out.status = "returned" =>
        /\ NextOccurrence(event_json, today) = NaturalOccurrence(event_json, today)
        /\ days_search_range = 0 =>
               \A i \in 1..Len(slots_out.slots) :
                   slots_out.slots[i].start_iso.instant \div MinutesPerDay =
                       NaturalOccurrence(event_json, today)

\* the number of multiples of step in [0, 12h)
StepsInTwelveHours(step) == (12 * 60 + step - 1) \div step

\* the slots returned for an empty calendar are the candidates: one for each
\* day offset in -N..+N and each of the first n multiples of step_minutes,
\* starting at the original start time on that day plus the step, each as
\* long as the event
CandidatesAre(n) ==
    LET slots == slots_out.slots
        day_offsets == (0 - days_search_range)..days_search_range
        length == event_json.end_time - event_json.start_time
    IN  /\ Len(slots) = (2 * days_search_range + 1) * n
        /\ \A d \in day_offsets, k \in 0..(n - 1) :
               Cardinality({i \in 1..Len(slots) :
                   slots[i].start_iso.instant =
                       OriginalStart + d * MinutesPerDay + k * step_minutes}) = 1
        /\ \A i \in 1..Len(slots) :
               slots[i].end_iso.instant - slots[i].start_iso.instant = length

\* C23 as stated: there are (2N+1) * (720 / step_minutes) candidates, one per
\* day offset and step, each as long as the event.
C23_CandidateCountByDivision ==
    (slots_out.status = "returned" /\ busy = <<>>) =>
        CandidatesAre((12 * 60) \div step_minutes)

\* C23: there is one candidate per day offset in -N..+N and per multiple of
\* step_minutes in [0, 12h), that is (2N+1) * ceil(720 / step_minutes)
\* candidates, each starting at the original start time on that day plus the
\* step and each as long as the event.
C23_CandidatesPerDayAndStep ==
    (slots_out.status = "returned" /\ busy = <<>>) =>
        CandidatesAre(StepsInTwelveHours(step_minutes))

\* a search over several days with a step that does not divide twelve hours
C23_Witness ==
    /\ slots_out.status = "returned"
    /\ busy = <<>>
    /\ days_search_range > 0
    /\ (12 * 60) % step_minutes # 0
    /\ Len(slots_out.slots) > 0


\* ---------------------------------------------------------------------------
\* The intervals of the Conflict Detector (conflict_agent.py)
\* ---------------------------------------------------------------------------

\* the titles of the plan's create_recurring operations, and what names the
\* plan's update and delete operations: their event ids and the new summary
CreatedTitles == {plan.operations[i].event.title : i \in CreatedIndices}

OtherOperationNames == {"evt1", "evt2", "Renamed"}

\* C24: the detector builds one interval per create_recurring operation, in
\* plan order, tagged with the operation's position in the plan and spanning
\* the operation's first occurrence only; update and delete operations give
\* no interval and no Conflict names them.
C24_OneIntervalPerCreateOperation ==
    conflict_out.status = "returned" =>
        LET planned == PlannedOccurrences(plan, semester)
            ops == plan.operations
        IN  /\ Len(planned) = Cardinality(CreatedIndices)
            /\ \A k \in 1..Len(planned) :
                   /\ planned[k].index + 1 \in CreatedIndices
                   /\ Cardinality({i \in CreatedIndices : i <= planned[k].index + 1}) = k
                   /\ planned[k].event = ops[planned[k].index + 1].event
                   /\ planned[k].title = ops[planned[k].index + 1].event.title
                   /\ planned[k].start = FirstInterval(ops[planned[k].index + 1], semester).start
                   /\ planned[k].end = FirstInterval(ops[planned[k].index + 1], semester).end
                   /\ planned[k].end - planned[k].start < MinutesPerDay
            /\ \A c \in Range(conflict_out.report.conflicts) :
                   /\ c.affected[1] \in CreatedTitles
                   /\ \A n \in 1..Len(c.affected) : c.affected[n] \notin OtherOperationNames

\* a plan that renames an event before it creates two overlapping classes,
\* which are reported
C24_Witness ==
    /\ conflict_out.status = "returned"
    /\ Len(plan.operations) = 3
    /\ plan.operations[1].op = "update"
    /\ plan.operations[2].op = "create_recurring"
    /\ plan.operations[3].op = "create_recurring"
    /\ Len(PairConflicts(conflict_out.report)) = 1


\* ---------------------------------------------------------------------------
\* The operations rewritten by apply_resolutions_tool (negotiation_agent.py)
\* ---------------------------------------------------------------------------

\* the resolutions that were applied to position i of the plan, by their
\* place in the list given to the tool
AppliedTo(i) ==
    {k \in 1..Len(resolutions_json) :
        /\ Applicable(resolutions_json[k])
        /\ resolutions_json[k].operation_index = i - 1}

\* C26: after a resolution is applied to a create_recurring operation, the
\* operation's first_start_iso and first_end_iso, the instants given to the
\* calendar at execution, are the suggested slot's start and end, as the
\* rewritten event's times are.
C26_FirstOccurrenceFollowsResolution ==
    negotiation_out.status = "returned" =>
        \A i \in 1..Len(mutation_plan_json.operations) :
            AppliedTo(i) # {} =>
                LET last == resolutions_json[CHOOSE k \in AppliedTo(i) :
                                                 \A m \in AppliedTo(i) : m <= k]
                    op == negotiation_out.outcome.updated_plan.operations[i]
                IN  /\ op.first_start_iso = last.suggested_start_iso
                    /\ op.first_end_iso = last.suggested_end_iso
                    /\ op.event.start_time = StrftimeHHMM(op.first_start_iso.instant)
                    /\ op.event.end_time = StrftimeHHMM(op.first_end_iso.instant)

\* C27: every create_recurring operation whose input event ended strictly
\* after it started still ends strictly after it starts in the updated plan,
\* whichever resolutions were applied, slots that cross midnight included.
C27_EndStaysAfterStart ==
    negotiation_out.status = "returned" =>
        \A i \in 1..Len(mutation_plan_json.operations) :
            LET old == mutation_plan_json.operations[i]
                new == negotiation_out.outcome.updated_plan.operations[i]
            IN  (/\ old.op = "create_recurring"
                 /\ old.event.end_time > old.event.start_time)
                    => new.event.end_time > new.event.start_time


\* ---------------------------------------------------------------------------
\* The session's artifacts follow the stored plan (app.py)
\* ---------------------------------------------------------------------------

\* C28: a stored conflict_report was computed from the stored generated_plan:
\* every step that replaces generated_plan leaves conflict_report cleared or
\* recomputed from the new plan.
C28_ConflictReportFollowsPlan ==
    [][generated_plan' # generated_plan =>
          \/ conflict_report' = None
          \/ conflict_report' =
                 ConflictAgentReport(generated_plan', semester_window',
                                     managed_calendar')]_vars

\* C29: a stored negotiation_outcome has the stored generated_plan as its
\* updated_plan, and every step that replaces generated_plan clears the
\* execution_report of the previous plan.
C29_DerivedArtifactsFollowPlan ==
    [][/\ negotiation_outcome' # None =>
              negotiation_outcome'.updated_plan = generated_plan'
       /\ generated_plan' # generated_plan => execution_report' = None]_vars

\* C30: the Executor is never invoked while the stored conflict report is
\* blocking.
C30_NoExecutionWhileBlocking ==
    click.invoked = "executor" =>
        ~(conflict_report # None /\ conflict_report.blocking)


\* ---------------------------------------------------------------------------
\* update_event_tool and delete_event_tool (calendar_tools_agent.py)
\* ---------------------------------------------------------------------------

\* an optional argument: left at its default None, or given
Omitted == [given |-> FALSE]

Given(v) == [given |-> TRUE, value |-> v]

\* Python's `not x` for an argument of type str | None
Falsy(arg) == ~arg.given \/ arg.value = ""

\* maxResults of the title search
SearchMaxResults == 5

\* a call issued to the calendar API
ApiCall(method, arg) == [method |-> method, arg |-> arg]

\* events().list(q=event_title, timeMin=now, maxResults=5, singleEvents=True,
\* orderBy="startTime") answering for every event, past ones too
SearchAnyTime(items, q) ==
    Take(SelectSeq(items, LAMBDA it : it.summary = q), SearchMaxResults)

\* events().list(q=event_title, timeMin=now, maxResults=5, singleEvents=True,
\* orderBy="startTime"): the first upcoming events that match the title.
\* `items` is kept ordered by start.
SearchUpcoming(items, q) ==
    Take(SelectSeq(items, LAMBDA it : it.upcoming /\ it.summary = q), SearchMaxResults)

ToolRaised(error, calls, items) ==
    [out |-> [status |-> "raised", error |-> error], calls |-> calls, items |-> items]

ToolReturned(value, calls, items) ==
    [out |-> [status |-> "returned", value |-> value], calls |-> calls, items |-> items]

\* target_event_id: the event_id given, else the id of the first upcoming
\* event found by title
LocateEvent(args, items) ==
    IF args.event_id.given
    THEN [status |-> "found", id |-> args.event_id.value, calls |-> <<>>]
    ELSE IF Falsy(args.event_title)
    THEN [status |-> "raised", calls |-> <<>>]
    ELSE LET q == args.event_title.value
             found == SearchUpcoming(items, q)
             calls == <<ApiCall("list", q)>>
         IN  IF found = <<>> THEN [status |-> "raised", calls |-> calls]
             ELSE IF found[1].id = "" THEN [status |-> "raised", calls |-> calls]
             ELSE [status |-> "found", id |-> found[1].id, calls |-> calls]

\* events().patch(eventId, body=patch) on the event: only the fields given
Patched(item, args) ==
    [item EXCEPT
        !.summary = IF args.new_title.given THEN args.new_title.value ELSE @,
        !.start = IF args.new_start_iso.given THEN args.new_start_iso.value ELSE @,
        !.end = IF args.new_end_iso.given THEN args.new_end_iso.value ELSE @]

UpdateEventTool(args, env_calendar_id, items) ==
    IF Falsy(args.new_title) /\ Falsy(args.new_start_iso) /\ Falsy(args.new_end_iso)
    THEN ToolRaised("ValueError", <<>>, items)
    ELSE IF env_calendar_id = "" THEN ToolRaised("ValueError", <<>>, items)
    ELSE LET target == LocateEvent(args, items)
         IN  IF target.status = "raised"
             THEN ToolRaised("ValueError", target.calls, items)
             ELSE LET calls == Append(target.calls, ApiCall("patch", target.id))
                  IN  IF \E i \in 1..Len(items) : items[i].id = target.id
                      THEN ToolReturned(target.id, calls,
                               [i \in 1..Len(items) |->
                                   IF items[i].id = target.id
                                   THEN Patched(items[i], args) ELSE items[i]])
                      ELSE ToolRaised("HttpError", calls, items)

DeleteEventTool(args, env_calendar_id, items) ==
    IF env_calendar_id = "" THEN ToolRaised("ValueError", <<>>, items)
    ELSE LET target == LocateEvent(args, items)
         IN  IF target.status = "raised"
             THEN ToolRaised("ValueError", target.calls, items)
             ELSE LET calls == Append(target.calls, ApiCall("delete", target.id))
                  IN  IF \E i \in 1..Len(items) : items[i].id = target.id
                      THEN ToolReturned(target.id, calls,
                               SelectSeq(items, LAMBDA it : it.id # target.id))
                      ELSE ToolRaised("HttpError", calls, items)


\* the calendar's events by start time: two upcoming events named Math and a
\* past one named Chess
ItemPool ==
    <<[id |-> "old1", summary |-> "Chess", start |-> "2024-12-02T18:00:00",
       end |-> "2024-12-02T19:00:00", upcoming |-> FALSE],
      [id |-> "evt1", summary |-> "Math", start |-> "2025-01-08T09:00:00",
       end |-> "2025-01-08T10:00:00", upcoming |-> TRUE],
      [id |-> "evt2", summary |-> "Math", start |-> "2025-01-15T09:00:00",
       end |-> "2025-01-15T10:00:00", upcoming |-> TRUE]>>

ItemLists ==
    {SelectSeq(ItemPool, LAMBDA it : it \in keep) : keep \in SUBSET Range(ItemPool)}

\* the arguments the tools are called with; delete_event_tool takes only the
\* two that locate the event
Locators ==
    [event_title : {Omitted, Given(""), Given("Math"), Given("Chess")},
     event_id : {Omitted, Given(""), Given("evt2"), Given("gone")}]

UpdateArgs ==
    [event_title : {Omitted, Given(""), Given("Math"), Given("Chess")},
     event_id : {Omitted, Given(""), Given("evt2"), Given("gone")},
     new_title : {Omitted, Given(""), Given("Renamed")},
     new_start_iso : {Omitted, Given("2025-01-08T10:30:00")},
     new_end_iso : {Omitted, Given("2025-01-08T11:30:00")}]

DeleteArgs ==
    {[event_title |-> loc.event_title, event_id |-> loc.event_id,
      new_title |-> Omitted, new_start_iso |-> Omitted, new_end_iso |-> Omitted] :
        loc \in Locators}

InitTools ==
    /\ called_tool \in {"update_event_tool", "delete_event_tool"}
    /\ tool_args \in IF called_tool = "update_event_tool" THEN UpdateArgs ELSE DeleteArgs
    /\ calendar_id_env \in {"", "managed@group.calendar.google.com"}
    /\ calendar_items \in ItemLists
    /\ api_calls = <<>>
    /\ tool_out = None
    /\ RunnerIdle
    /\ OverlapIdle
    /\ FirstOccurrenceIdle
    /\ ConflictIdle
    /\ ApplyIdle
    /\ SlotIdle
    /\ ExecutorIdle
    /\ PlannerIdle
    /\ RoundTripIdle
    /\ SessionIdle

outsideTools ==
    <<overlapVars, firstOccurrenceVars, conflictVars, applyVars, slotVars,
      executorVars, plannerVars, roundTripVars, sessionVars, runnerVars>>

\* what the called tool does when the calendar API answers every call
ToolRun ==
    IF called_tool = "update_event_tool"
    THEN UpdateEventTool(tool_args, calendar_id_env, calendar_items)
    ELSE DeleteEventTool(tool_args, calendar_id_env, calendar_items)

CallUpdateEventTool ==
    /\ tool_out = None
    /\ called_tool = "update_event_tool"
    /\ tool_out' = ToolRun.out
    /\ api_calls' = ToolRun.calls
    /\ calendar_items' = ToolRun.items
    /\ UNCHANGED <<called_tool, tool_args, calendar_id_env, outsideTools>>

CallDeleteEventTool ==
    /\ tool_out = None
    /\ called_tool = "delete_event_tool"
    /\ tool_out' = ToolRun.out
    /\ api_calls' = ToolRun.calls
    /\ calendar_items' = ToolRun.items
    /\ UNCHANGED <<called_tool, tool_args, calendar_id_env, outsideTools>>

\* the first call the tool issues to the calendar API raises HttpError: the
\* tool does not catch it and nothing is written
CalendarApiCallRaises ==
    /\ tool_out = None
    /\ ToolRun.calls # <<>>
    /\ tool_out' = [status |-> "raised", error |-> "HttpError"]
    /\ api_calls' = <<ToolRun.calls[1]>>
    /\ UNCHANGED <<called_tool, tool_args, calendar_id_env, calendar_items,
                   outsideTools>>

NextTools == CallUpdateEventTool \/ CallDeleteEventTool \/ CalendarApiCallRaises

SpecTools == InitTools /\ [][NextTools]_vars

\* no event_id and no event_title were given
NoLocatorGiven == ~tool_args.event_id.given /\ ~tool_args.event_title.given

\* update_event_tool was given none of new_title, new_start_iso, new_end_iso
NoFieldGiven ==
    /\ called_tool = "update_event_tool"
    /\ ~tool_args.new_title.given
    /\ ~tool_args.new_start_iso.given
    /\ ~tool_args.new_end_iso.given

\* the event is to be found by title and no upcoming event has that title
NoEventMatches ==
    /\ ~tool_args.event_id.given
    /\ tool_args.event_title.given
    /\ \A i \in 1..Len(calendar_items) :
           ~(calendar_items[i].upcoming
               /\ calendar_items[i].summary = tool_args.event_title.value)

\* C25: called with neither event_id nor event_title, or (update_event_tool)
\* with no field to change, or with a title no event matches, the tool raises
\* a validation error (or the title search itself fails), issues no patch and
\* no delete call, and leaves the calendar as it was.
C25_InvalidCallsChangeNothing ==
    [][(tool_out' # tool_out /\ (NoLocatorGiven \/ NoFieldGiven \/ NoEventMatches)) =>
          /\ tool_out'.status = "raised"
          /\ \/ tool_out'.error = "ValueError"
             \/ (NoEventMatches /\ ~NoFieldGiven /\ api_calls' = <<ApiCall("list", tool_args.event_title.value)>>)
          /\ \A k \in 1..Len(api_calls') : api_calls'[k].method = "list"
          /\ calendar_items' = calendar_items]_vars

\* update_event_tool is asked to rename the event titled Chess while the only
\* event of that title is past and other events exist: it searched, raised
\* ValueError and wrote nothing
C25_Witness ==
    /\ tool_out.status = "raised"
    /\ tool_out.error = "ValueError"
    /\ called_tool = "update_event_tool"
    /\ tool_args.event_title = Given("Chess")
    /\ ~tool_args.event_id.given
    /\ tool_args.new_title = Given("Renamed")
    /\ api_calls = <<ApiCall("list", "Chess")>>
    /\ Len(calendar_items) = 3


\* ---------------------------------------------------------------------------
\* One run of an agent by the runner (Runner.run / Runner.run_sync as called
\* from calendar_agent.py, planner_agent.py, negotiation_agent.py and
\* executor_agent.py).  A turn is one answer of the generation service: a
\* request for a tool call, which the runner executes before the next turn
\* (one round trip), or the final output.  A run given max_turns raises
\* MaxTurnsExceeded when another turn would be needed after max_turns turns.
\* ---------------------------------------------------------------------------

\* max_turns of the chat agent's run; the other runs are started without one
ChatMaxTurns == 4

\* the longest run explored when no max_turns is given
MaxUncappedTurns == 6

Agents == {"Calendar Agent", "PlannerAgent", "NegotiationAgent", "CalendarExecutorAgent"}

\* Agent(tools=[...])
AgentTools(agent) ==
    CASE agent = "Calendar Agent" ->
             {"list_upcoming_events_tool", "create_simple_event_tool",
              "update_event_tool", "delete_event_tool", "freebusy_tool",
              "create_recurring_event_tool"}
      [] agent = "PlannerAgent" -> {}
      [] agent = "NegotiationAgent" ->
             {"find_alternative_slots_tool", "apply_resolutions_tool",
              "freebusy_tool", "list_upcoming_events_tool"}
      [] agent = "CalendarExecutorAgent" ->
             {"create_recurring_event_tool", "update_event_tool", "delete_event_tool"}

\* the max_turns argument of the call that starts the agent
MaxTurnsArgument(agent) ==
    IF agent = "Calendar Agent" THEN Given(ChatMaxTurns) ELSE Omitted

InitRunner ==
    /\ starting_agent \in Agents
    /\ max_turns = MaxTurnsArgument(starting_agent)
    /\ current_turn = 0
    /\ tool_round_trips = 0
    /\ last_tool = "none"
    /\ run_result = [status |-> "running"]
    /\ ToolIdle
    /\ OverlapIdle
    /\ FirstOccurrenceIdle
    /\ ConflictIdle
    /\ ApplyIdle
    /\ SlotIdle
    /\ ExecutorIdle
    /\ PlannerIdle
    /\ RoundTripIdle
    /\ SessionIdle

outsideRunner ==
    <<overlapVars, firstOccurrenceVars, conflictVars, applyVars, slotVars,
      executorVars, plannerVars, roundTripVars, sessionVars, toolVars>>

\* another turn may be taken
TurnAllowed ==
    /\ run_result.status = "running"
    /\ current_turn < (IF max_turns.given THEN max_turns.value ELSE MaxUncappedTurns)

\* the service asks for a tool call; the runner executes it and goes on
TurnCallsTool ==
    /\ TurnAllowed
    /\ \E tool \in AgentTools(starting_agent) : last_tool' = tool
    /\ current_turn' = current_turn + 1
    /\ tool_round_trips' = tool_round_trips + 1
    /\ UNCHANGED <<starting_agent, max_turns, run_result, outsideRunner>>

\* the service gives the final output: the run returns result.final_output
TurnGivesFinalOutput ==
    /\ TurnAllowed
    /\ current_turn' = current_turn + 1
    /\ run_result' = [status |-> "returned"]
    /\ UNCHANGED <<starting_agent, max_turns, tool_round_trips, last_tool,
                   outsideRunner>>

\* the service call raises, or its output does not fit the output type
TurnRaises ==
    /\ TurnAllowed
    /\ current_turn' = current_turn + 1
    /\ run_result' = [status |-> "raised", error |-> "Exception"]
    /\ UNCHANGED <<starting_agent, max_turns, tool_round_trips, last_tool,
                   outsideRunner>>

\* max_turns turns were taken and none gave the final output: the runner
\* raises MaxTurnsExceeded, which no caller catches
RunExceedsMaxTurns ==
    /\ run_result.status = "running"
    /\ max_turns.given
    /\ current_turn = max_turns.value
    /\ run_result' = [status |-> "raised", error |-> "MaxTurnsExceeded"]
    /\ UNCHANGED <<starting_agent, max_turns, current_turn, tool_round_trips,
                   last_tool, outsideRunner>>

NextRunner ==
    \/ TurnCallsTool
    \/ TurnGivesFinalOutput
    \/ TurnRaises
    \/ RunExceedsMaxTurns

SpecRunner == InitRunner /\ [][NextRunner]_vars

\* C21: every run (chat agent, Planner, Negotiator, Executor) makes at most
\* four tool-call round trips, and a run that made four and is over has
\* returned a result to its caller, not raised.
C21_RunsCappedAndReturn ==
    /\ tool_round_trips <= ChatMaxTurns
    /\ (tool_round_trips = ChatMaxTurns /\ run_result.status # "running") =>
           run_result.status = "returned"

==========================================================================
